---------------------------- MODULE Spec2Model ----------------------------
(***************************************************************************)
(* State-machine model of src/lib/ai-manager.ts (class AIManager): the     *)
(* retry / model-fallback loops of analyzeWithRetry and                    *)
(* generateStreamWithRetry, the lazily built client handle, the retry      *)
(* policy and the model-list resolver.                                     *)
(*                                                                         *)
(* A text is a sequence of tokens; a token is a string standing for a run   *)
(* of characters that no operation of the program cuts (a word, or one     *)
(* space, comma, quote or bracket), so that split, trim and join are       *)
(* computed and not assumed.  JavaScript runs every synchronous stretch of *)
(* a handler to completion: one action of the model is one such stretch,   *)
(* from the resumption of an await to the next await (or to the end of     *)
(* the call).                                                              *)
(***************************************************************************)
EXTENDS Integers, Sequences, FiniteSets, TLC

VARIABLES
  env,          \* process.env: the three configuration values read by the manager
  client,       \* AIManager.client (line 37)
  retryConfig,  \* AIManager.retryConfig (lines 38-43)
  calls,        \* the invocations of analyzeWithRetry / generateStreamWithRetry
  constructed,  \* number of `new OpenAI(...)` evaluated so far (handle identity)
  resets,       \* number of resetClient() calls so far
  reconfigs,    \* number of setRetryConfig() calls so far
  envChanges,   \* number of configuration changes so far
  probe         \* one direct call of a private function: its arguments and outcome

vars ==
  <<env, client, retryConfig, calls, constructed, resets, reconfigs, envChanges,
    probe>>

-----------------------------------------------------------------------------
(* Bounds of the exploration *)

\* setRetryConfig calls explored in one run
MaxReconfig == 1
\* resetClient calls and configuration edits explored in one run
MaxClientOps == 2
\* stream items delivered to one invocation
MaxChunks == 2
\* attempt indices at which the delay formula is evaluated
MaxAttempt == 4

-----------------------------------------------------------------------------
(* Texts *)

WhiteSpace == {" ", "\n"}

Min(a, b) == IF a <= b THEN a ELSE b

RECURSIVE TrimStart(_)
TrimStart(s) ==
  IF s # <<>> /\ Head(s) \in WhiteSpace THEN TrimStart(Tail(s)) ELSE s

RECURSIVE TrimEnd(_)
TrimEnd(s) ==
  IF s # <<>> /\ s[Len(s)] \in WhiteSpace
  THEN TrimEnd(SubSeq(s, 1, Len(s) - 1))
  ELSE s

\* String.prototype.trim
Trim(s) == TrimEnd(TrimStart(s))

\* String.prototype.split(sep) for a one-character separator: the pieces
\* between separators, empty pieces kept, at least one piece.
RECURSIVE SplitFrom(_, _, _)
SplitFrom(s, sep, cur) ==
  IF s = <<>> THEN <<cur>>
  ELSE IF Head(s) = sep THEN <<cur>> \o SplitFrom(Tail(s), sep, <<>>)
  ELSE SplitFrom(Tail(s), sep, Append(cur, Head(s)))

Split(s, sep) == SplitFrom(s, sep, <<>>)

\* map leaving the entries untrimmed
MapUntrimmed(xs) == xs

\* Array.prototype.map(name => name.trim())
MapTrim(xs) == [i \in 1..Len(xs) |-> Trim(xs[i])]

\* Array.prototype.filter(name => name.length > 0)
RECURSIVE FilterNonEmpty(_)
FilterNonEmpty(xs) ==
  IF xs = <<>> THEN <<>>
  ELSE IF Len(Head(xs)) > 0 THEN <<Head(xs)>> \o FilterNonEmpty(Tail(xs))
  ELSE FilterNonEmpty(Tail(xs))

\* String.prototype.toLowerCase on one token
ToLowerCase(token) ==
  CASE token = "<!DOCTYPE" -> "<!doctype"
    [] token = "<HTML" -> "<html"
    [] token = "</HTML" -> "</html"
    [] OTHER -> token

\* Array.prototype.join(sep) of an array of texts
RECURSIVE Join(_, _)
Join(xs, sep) ==
  IF xs = <<>> THEN <<>>
  ELSE IF Len(xs) = 1 THEN Head(xs)
  ELSE Head(xs) \o sep \o Join(Tail(xs), sep)

-----------------------------------------------------------------------------
(* Configuration *)

\* CONFIG.DEFAULT_AI_MODEL (./constants): the documented default model name
DEFAULT_AI_MODEL == <<"g">>

\* getEnvVar(key, defaultValue) (./utils): the value, or the default when unset
GetEnvVar(key, defaultValue) ==
  IF env[key] = <<>> THEN defaultValue ELSE env[key]

\* Values AI_MODEL_NAME takes in the exploration:
\*   unset, " a , , b " and ", ,"
ModelNameValues ==
  { <<>>,
    <<" ", "a", " ", ",", " ", ",", " ", "b", " ">>,
    <<",", " ", ",">> }

\* (THIRD_PARTY_API_URL, THIRD_PARTY_API_KEY): two complete pairs, one
\* without the URL, one without the key
CredentialValues ==
  { << <<"u">>, <<"k">> >>, << <<"v">>, <<"k">> >>,
    << <<>>, <<"k">> >>, << <<"u">>, <<>> >> }

EnvValues ==
  { [THIRD_PARTY_API_URL |-> cr[1], THIRD_PARTY_API_KEY |-> cr[2],
     AI_MODEL_NAME |-> mn] : cr \in CredentialValues, mn \in ModelNameValues }

\* getModelList (lines 48-51)
GetModelList ==
  FilterNonEmpty(MapTrim(Split(GetEnvVar("AI_MODEL_NAME", DEFAULT_AI_MODEL), ",")))

-----------------------------------------------------------------------------
(* Errors *)

NoError == [cls |-> "null"]

\* new Error(message)
PlainError(message) == [cls |-> "Error", message |-> message]

\* new BusinessError(message, userMessage, suggestion, retryable)
BusinessError(message, userMessage, retryable) ==
  [cls |-> "BusinessError", message |-> message,
   userMessage |-> userMessage, retryable |-> retryable]

\* lastError?.message inside a template string
MessageOf(error) ==
  IF error.cls = "null" THEN [tag |-> "undefined"] ELSE error.message

ConfigError ==
  BusinessError([tag |-> "config-incomplete"], "config", FALSE)

\* the aggregate error of lines 340-345 / 426-431
ExhaustedError(prefix, userMessage, modelList, lastError) ==
  BusinessError(
    [tag |-> prefix, models |-> Join(modelList, <<",", " ">>),
     retries |-> retryConfig.maxRetries, last |-> MessageOf(lastError)],
    userMessage, TRUE)

-----------------------------------------------------------------------------
(* Client handle *)

NoClient == [made |-> FALSE]

\* new OpenAI({baseURL, apiKey}); id is the identity of the object
NewOpenAI(apiUrl, apiKey, id) ==
  [made |-> TRUE, baseURL |-> apiUrl, apiKey |-> apiKey, id |-> id]

\* getClient building a handle at every call (the cache is ignored)
GetClientUncached(sh) ==
  LET apiUrl == GetEnvVar("THIRD_PARTY_API_URL", <<>>)
      apiKey == GetEnvVar("THIRD_PARTY_API_KEY", <<>>)
  IN IF apiUrl = <<>> \/ apiKey = <<>>
     THEN [threw |-> TRUE, error |-> ConfigError, handle |-> NoClient,
           client |-> sh.client, constructed |-> sh.constructed]
     ELSE LET made == NewOpenAI(apiUrl, apiKey, sh.constructed + 1)
          IN [threw |-> FALSE, error |-> NoError, handle |-> made,
              client |-> made, constructed |-> sh.constructed + 1]

\* getClient (lines 56-77) on the shared state sh = [client, constructed]:
\* the outcome is [threw, error, handle, client, constructed].
GetClient(sh) ==
  IF ~sh.client.made
  THEN LET apiUrl == GetEnvVar("THIRD_PARTY_API_URL", <<>>)
           apiKey == GetEnvVar("THIRD_PARTY_API_KEY", <<>>)
       IN IF apiUrl = <<>> \/ apiKey = <<>>
          THEN [threw |-> TRUE, error |-> ConfigError, handle |-> NoClient,
                client |-> sh.client, constructed |-> sh.constructed]
          ELSE LET made == NewOpenAI(apiUrl, apiKey, sh.constructed + 1)
               IN [threw |-> FALSE, error |-> NoError, handle |-> made,
                   client |-> made, constructed |-> sh.constructed + 1]
  ELSE [threw |-> FALSE, error |-> NoError, handle |-> sh.client,
        client |-> sh.client, constructed |-> sh.constructed]

-----------------------------------------------------------------------------
(* Retry policy *)

DefaultRetryConfig ==
  [maxRetries |-> 2, baseDelay |-> 1000, maxDelay |-> 10000, backoffMultiplier |-> 2]

\* Math.pow(b, e) for an integer e >= 0 (Math.pow(0, 0) is 1)
RECURSIVE MathPow(_, _)
MathPow(b, e) == IF e = 0 THEN 1 ELSE b * MathPow(b, e - 1)

\* calculateDelay without the cap (Math.min dropped)
CalculateDelayUncapped(attempt) ==
  retryConfig.baseDelay * MathPow(retryConfig.backoffMultiplier, attempt)

\* calculateDelay (lines 82-85)
CalculateDelay(attempt) ==
  LET delay == retryConfig.baseDelay * MathPow(retryConfig.backoffMultiplier, attempt)
  IN Min(delay, retryConfig.maxDelay)

\* Partial<RetryConfig> values passed to setRetryConfig in the exploration
RetryOverrides ==
  { [maxRetries |-> 0],
    [maxRetries |-> 3],
    [backoffMultiplier |-> 0],
    [baseDelay |-> 3000, maxDelay |-> 5000] }

\* { ...this.retryConfig, ...config } (line 440)
MergeConfig(current, config) ==
  [f \in DOMAIN current |-> IF f \in DOMAIN config THEN config[f] ELSE current[f]]

-----------------------------------------------------------------------------
(* JSON values: what JSON.parse yields, tagged by type *)

JUndefined == [t |-> "undefined"]
JNull == [t |-> "null"]
JNum(n) == [t |-> "num", v |-> n]
JStr(s) == [t |-> "str", v |-> s]
JArr(xs) == [t |-> "arr", v |-> xs]
JObj(f) == [t |-> "obj", v |-> f]

\* !!x
Truthy(x) ==
  CASE x.t = "undefined" -> FALSE
    [] x.t = "null" -> FALSE
    [] x.t = "num" -> x.v # 0
    [] x.t = "str" -> x.v # <<>>
    [] OTHER -> TRUE

\* Array.isArray(x)
IsArray(x) == x.t = "arr"

\* typeof x
TypeOf(x) ==
  CASE x.t = "undefined" -> "undefined"
    [] x.t = "num" -> "number"
    [] x.t = "str" -> "string"
    [] OTHER -> "object"

\* x[k] / x.k for a string key k (x neither null nor undefined)
Prop(x, k) ==
  IF x.t = "obj" /\ k \in DOMAIN x.v THEN x.v[k] ELSE JUndefined

\* k in x: a TypeError when x is a primitive
InThrows(x) == x.t \in {"num", "str"}
In(k, x) == x.t = "obj" /\ k \in DOMAIN x.v

\* x.k = value on an object (a property set on an array is not one of its elements)
SetProp(x, k, value) ==
  IF x.t = "obj"
  THEN JObj([f \in DOMAIN x.v \cup {k} |-> IF f = k THEN value ELSE x.v[f]])
  ELSE x

\* The order in which the serializer writes the keys of an object
KeyOrder ==
  << "rules", "titleFormulas", "suggestedFormulas", "commonKeywords",
     "contentStructure", "openingHooks", "endingHooks", "bodyTemplate",
     "tagStrategy", "commonTags", "tagCategories", "coreKeywords",
     "longTailKeywords", "coverStyleAnalysis", "commonStyles",
     "choices", "message", "delta", "content" >>

RECURSIVE KeysOf(_, _)
KeysOf(f, order) ==
  IF order = <<>> THEN <<>>
  ELSE IF Head(order) \in DOMAIN f THEN <<Head(order)>> \o KeysOf(f, Tail(order))
  ELSE KeysOf(f, Tail(order))

\* The decimal text of the numbers that occur in the exploration
NumText(n) == CASE n = 0 -> "0" [] n = 1 -> "1" [] OTHER -> "5"

\* JSON.stringify: the text of a value; StringifyItems writes the first n
\* elements of an array, StringifyFields the first n keys of an object
RECURSIVE Stringify(_)
RECURSIVE StringifyItems(_, _)
RECURSIVE StringifyFields(_, _, _)

StringifyItems(xs, n) ==
  IF n = 0 THEN <<>>
  ELSE IF n = 1 THEN Stringify(xs[1])
  ELSE StringifyItems(xs, n - 1) \o <<",">> \o Stringify(xs[n])

StringifyFields(f, ks, n) ==
  IF n = 0 THEN <<>>
  ELSE IF n = 1 THEN <<"\"", ks[1], "\"", ":">> \o Stringify(f[ks[1]])
  ELSE StringifyFields(f, ks, n - 1)
         \o <<",", "\"", ks[n], "\"", ":">> \o Stringify(f[ks[n]])

Stringify(x) ==
  CASE x.t = "null" -> <<"null">>
    [] x.t = "num" -> <<NumText(x.v)>>
    [] x.t = "str" -> <<"\"">> \o x.v \o <<"\"">>
    [] x.t = "arr" -> <<"[">> \o StringifyItems(x.v, Len(x.v)) \o <<"]">>
    [] x.t = "obj" ->
         <<"{">>
         \o StringifyFields(x.v, KeysOf(x.v, KeyOrder),
                            Len(KeysOf(x.v, KeyOrder)))
         \o <<"}">>

-----------------------------------------------------------------------------
(* validateJsonResponse and its deep validators (lines 97-237) *)

\* lines 153-166
ValidateTitleFormulas(titleFormulas, errors) ==
  IF ~Truthy(titleFormulas) \/ TypeOf(titleFormulas) # "object"
  THEN Append(errors, <<"titleFormulas", "missing-or-malformed">>)
  ELSE LET sf == Prop(titleFormulas, "suggestedFormulas")
           e1 == IF ~IsArray(sf) \/ Len(sf.v) = 0
                 THEN Append(errors, <<"titleFormulas.suggestedFormulas", "not-nonempty-array">>)
                 ELSE errors
       IN IF ~IsArray(Prop(titleFormulas, "commonKeywords"))
          THEN Append(e1, <<"titleFormulas.commonKeywords", "not-array">>)
          ELSE e1

\* lines 168-185
ValidateContentStructure(contentStructure, errors) ==
  IF ~Truthy(contentStructure) \/ TypeOf(contentStructure) # "object"
  THEN Append(errors, <<"contentStructure", "missing-or-malformed">>)
  ELSE LET oh == Prop(contentStructure, "openingHooks")
           eh == Prop(contentStructure, "endingHooks")
           bt == Prop(contentStructure, "bodyTemplate")
           e1 == IF ~IsArray(oh) \/ Len(oh.v) = 0
                 THEN Append(errors, <<"contentStructure.openingHooks", "not-nonempty-array">>)
                 ELSE errors
           e2 == IF ~IsArray(eh) \/ Len(eh.v) = 0
                 THEN Append(e1, <<"contentStructure.endingHooks", "not-nonempty-array">>)
                 ELSE e1
       IN IF ~Truthy(bt) \/ TypeOf(bt) # "string"
          THEN Append(e2, <<"contentStructure.bodyTemplate", "not-string">>)
          ELSE e2

\* slice(0, n) leaving the array as it is
SliceAll(xs, n) == xs

\* Array.prototype.slice(0, n)
Slice0(xs, n) == SubSeq(xs, 1, Min(n, Len(xs)))

\* lines 187-224: the outcome is [tagStrategy, errors], tagStrategy being the
\* object as the validator leaves it
ValidateTagStrategy(tagStrategy, errors) ==
  IF ~Truthy(tagStrategy) \/ TypeOf(tagStrategy) # "object"
  THEN [tagStrategy |-> tagStrategy,
        errors |-> Append(errors, <<"tagStrategy", "missing-or-malformed">>)]
  ELSE LET commonTags == Prop(tagStrategy, "commonTags")
           tagCategories == Prop(tagStrategy, "tagCategories")
       IN IF ~Truthy(commonTags)
          THEN IF Truthy(tagCategories)
               THEN LET core == Prop(tagCategories, "coreKeywords")
                        long == Prop(tagCategories, "longTailKeywords")
                        t1 == IF IsArray(core) THEN core.v ELSE <<>>
                        extractedTags == IF IsArray(long) THEN t1 \o long.v ELSE t1
                    IN [tagStrategy |->
                          SetProp(tagStrategy, "commonTags", JArr(Slice0(extractedTags, 10))),
                        errors |-> errors]
               ELSE [tagStrategy |-> SetProp(tagStrategy, "commonTags", JArr(<<>>)),
                     errors |-> errors]
          ELSE IF ~IsArray(commonTags)
               THEN [tagStrategy |-> tagStrategy,
                     errors |-> Append(errors, <<"tagStrategy.commonTags", "not-array">>)]
               ELSE [tagStrategy |-> tagStrategy, errors |-> errors]

\* lines 226-237
ValidateCoverStyleAnalysis(coverStyleAnalysis, errors) ==
  IF ~Truthy(coverStyleAnalysis) \/ TypeOf(coverStyleAnalysis) # "object"
  THEN Append(errors, <<"coverStyleAnalysis", "missing-or-malformed">>)
  ELSE LET cs == Prop(coverStyleAnalysis, "commonStyles")
       IN IF ~IsArray(cs) \/ Len(cs.v) = 0
          THEN Append(errors, <<"coverStyleAnalysis.commonStyles", "not-nonempty-array">>)
          ELSE errors

\* expectedFields.includes(name)
Includes(xs, x) == \E i \in 1..Len(xs) : xs[i] = x

\* the loop of lines 121-125
RECURSIVE MissingFields(_, _, _)
MissingFields(parsed, expectedFields, errors) ==
  IF expectedFields = <<>> THEN errors
  ELSE LET field == Head(expectedFields)
       IN MissingFields(parsed, Tail(expectedFields),
            IF ~In(field, parsed) \/ ~Truthy(Prop(parsed, field))
            THEN Append(errors, <<field, "missing">>)
            ELSE errors)

-----------------------------------------------------------------------------
(* JSON documents and upstream results of the exploration *)

DocRules == JObj([rules |-> JArr(<<JStr(<<"r">>)>>)])

DocEmptyRules == JObj([rules |-> JArr(<<>>)])

DocTags ==
  JObj([tagStrategy |->
    JObj([tagCategories |->
      JObj([coreKeywords |-> JArr(<<JStr(<<"a">>), JStr(<<"b">>)>>),
            longTailKeywords |-> JArr(<<JStr(<<"c">>)>>)])])])

DocBadTags == JObj([tagStrategy |-> JObj([commonTags |-> JStr(<<"x">>)])])

DocNumber == JNum(5)

\* the documents the upstream answers with
AnsweredDocs == {DocRules, DocEmptyRules, DocTags, DocBadTags, DocNumber, JNull}

\* an array of one-token strings
Strings(tokens) == JArr([i \in 1..Len(tokens) |-> JStr(<<tokens[i]>>)])

\* a document whose tagStrategy is the object of the given fields
TagDoc(fields) == JObj([tagStrategy |-> JObj(fields)])

\* twelve keywords in two arrays of six
DocManyTags ==
  TagDoc([tagCategories |->
    JObj([coreKeywords |-> Strings(<<"t1", "t2", "t3", "t4", "t5", "t6">>),
          longTailKeywords |-> Strings(<<"t7", "t8", "t9", "t10", "t11", "t12">>)])])

DocLongTailOnly ==
  TagDoc([tagCategories |-> JObj([longTailKeywords |-> Strings(<<"c", "a">>)])])

DocCoreNotArray ==
  TagDoc([tagCategories |->
    JObj([coreKeywords |-> JStr(<<"a">>), longTailKeywords |-> Strings(<<"c">>)])])

DocNoCategories == TagDoc([bodyTemplate |-> JStr(<<"x">>)])

DocCommonTags == TagDoc([commonTags |-> Strings(<<"k">>)])

DocObjectTags == TagDoc([commonTags |-> JObj([content |-> JNum(1)])])

DocNullTags ==
  TagDoc([commonTags |-> JNull,
          tagCategories |-> JObj([coreKeywords |-> Strings(<<"a">>)])])

DocZeroTags == TagDoc([commonTags |-> JNum(0)])

DocRulesAndTags ==
  JObj([rules |-> Strings(<<"r">>),
        tagStrategy |-> JObj([commonTags |-> Strings(<<"k">>)])])

DocFalsyRules == JObj([rules |-> JNum(0), tagStrategy |-> JNull])

DocHollow ==
  JObj([titleFormulas |-> JObj([suggestedFormulas |-> JArr(<<>>)]),
        contentStructure |-> JObj([openingHooks |-> Strings(<<"o">>),
                                   bodyTemplate |-> JNum(1)]),
        coverStyleAnalysis |-> JStr(<<"x">>)])

DocFull ==
  JObj([rules |-> Strings(<<"r">>),
        titleFormulas |-> JObj([suggestedFormulas |-> Strings(<<"f">>),
                                commonKeywords |-> JArr(<<>>)]),
        contentStructure |-> JObj([openingHooks |-> Strings(<<"o">>),
                                   endingHooks |-> Strings(<<"e">>),
                                   bodyTemplate |-> JStr(<<"x">>)]),
        tagStrategy |-> JObj([tagCategories |-> JObj([coreKeywords |-> Strings(<<"a">>)])]),
        coverStyleAnalysis |-> JObj([commonStyles |-> Strings(<<"s">>)])])

\* further documents, handed to validateJsonResponse directly
ValidatedDocs ==
  { DocManyTags, DocLongTailOnly, DocCoreNotArray, DocNoCategories,
    DocCommonTags, DocObjectTags, DocNullTags, DocZeroTags, DocRulesAndTags,
    DocFalsyRules, DocHollow, DocFull, Strings(<<"r">>), JStr(<<"x">>) }

JsonDocs == AnsweredDocs \cup ValidatedDocs

\* safeJsonParse(content, fallback) (./utils): the value whose JSON text is
\* content, or the fallback when content is not JSON text
JsonText == [d \in JsonDocs |-> Stringify(d)]

SafeJsonParse(content, fallback) ==
  LET hits == {d \in JsonDocs : JsonText[d] = content}
  IN IF hits = {} THEN fallback ELSE CHOOSE d \in hits : TRUE

\* a chat-completion object whose first choice carries the text
Completion(text) ==
  JObj([choices |-> JArr(<<JObj([message |-> JObj([content |-> JStr(text)])])>>)])

HtmlPage == <<"\n", " ", "<!DOCTYPE", " ", "html", ">", "<html", ">", "</html", ">">>

HtmlPageUpper == <<"<HTML", ">", "</HTML", ">">>

NotJson == <<"oops">>

\* the text cut in two fragments after its first k tokens
Fragments(text, k) ==
  JArr(<<JStr(SubSeq(text, 1, k)), JStr(SubSeq(text, k + 1, Len(text)))>>)

\* what `await client.chat.completions.create(...)` resolves to (lines 270-294)
AnalyzeResponses ==
  { Completion(Stringify(d)) : d \in AnsweredDocs }
  \cup { JStr(Stringify(DocRules)), JStr(Stringify(DocTags)),
         Fragments(Stringify(DocRules), 3),
         JStr(HtmlPage), JStr(HtmlPageUpper), Completion(HtmlPage),
         JStr(NotJson), JStr(<<" ", "\n">>), Completion(<<>>),
         JObj([choices |-> JArr(<<>>)]), JNull }

\* what the upstream call or the stream iteration rejects with
UpstreamErrors ==
  { PlainError([tag |-> "ETIMEDOUT"]), PlainError([tag |-> "HTTP 500"]) }

\* one item of the stream (lines 377-387)
DeltaChunk(text) ==
  JObj([choices |-> JArr(<<JObj([delta |-> JObj([content |-> JStr(text)])])>>)])

\* items of the stream: two with content (one in the standard format, one a
\* bare string), one whose content is empty, one of an unknown format
StreamChunks ==
  { DeltaChunk(<<"a">>), JStr(<<"b">>), DeltaChunk(<<>>),
    JObj([choices |-> JArr(<<>>)]) }

ExpectedFieldsValues == { <<"rules">>, <<"tagStrategy">> }

-----------------------------------------------------------------------------
(* validateJsonResponse (lines 97-151): the outcome is                     *)
(* [threw, error, isValid, data, errors]                                   *)

ValidationOutcome(isValid, data, errors) ==
  [threw |-> FALSE, error |-> NoError, isValid |-> isValid, data |-> data,
   errors |-> errors]

\* lines 121-143 on the parsed value: the expected fields, then the deep
\* validators of the fields that were asked for
ValidateFields(parsed, expectedFields) ==
  LET e1 == MissingFields(parsed, expectedFields, <<>>)
      rules == Prop(parsed, "rules")
      e2 == IF Includes(expectedFields, "rules")
               /\ (~IsArray(rules) \/ Len(rules.v) = 0)
            THEN Append(e1, <<"rules", "not-nonempty-array">>)
            ELSE e1
      e3 == IF Includes(expectedFields, "titleFormulas")
            THEN ValidateTitleFormulas(Prop(parsed, "titleFormulas"), e2)
            ELSE e2
      e4 == IF Includes(expectedFields, "contentStructure")
            THEN ValidateContentStructure(Prop(parsed, "contentStructure"), e3)
            ELSE e3
      ts == IF Includes(expectedFields, "tagStrategy")
            THEN ValidateTagStrategy(Prop(parsed, "tagStrategy"), e4)
            ELSE [tagStrategy |-> Prop(parsed, "tagStrategy"), errors |-> e4]
      \* validateTagStrategy writes commonTags into the parsed object
      data == IF In("tagStrategy", parsed)
              THEN SetProp(parsed, "tagStrategy", ts.tagStrategy)
              ELSE parsed
      e6 == IF Includes(expectedFields, "coverStyleAnalysis")
            THEN ValidateCoverStyleAnalysis(Prop(parsed, "coverStyleAnalysis"), ts.errors)
            ELSE ts.errors
  IN ValidationOutcome(Len(e6) = 0, data, e6)

\* the parsed value checked: not JSON, a primitive under `in`, or validated
ValidateParsed(parsed, expectedFields) ==
  IF parsed = JNull
  THEN ValidationOutcome(FALSE, JNull, << <<"response", "not-json">> >>)
  ELSE IF expectedFields # <<>> /\ InThrows(parsed)
  THEN [threw |-> TRUE, error |-> PlainError([tag |-> "TypeError"]),
        isValid |-> FALSE, data |-> JNull, errors |-> <<>>]
  ELSE ValidateFields(parsed, expectedFields)

ValidateJsonResponse(content, expectedFields) ==
  IF content = <<>> \/ Trim(content) = <<>>
  THEN ValidationOutcome(FALSE, JNull, << <<"response", "empty">> >>)
  ELSE ValidateParsed(SafeJsonParse(content, JNull), expectedFields)

\* join('') putting the later items first
RECURSIVE JoinItemsReversed(_)
JoinItemsReversed(items) ==
  IF items = <<>> THEN <<>> ELSE JoinItemsReversed(Tail(items)) \o Head(items).v

\* lines 272-294: the text payload of a raw response
RECURSIVE JoinItems(_)
JoinItems(items) ==
  IF items = <<>> THEN <<>> ELSE Head(items).v \o JoinItems(Tail(items))

ExtractContent(response) ==
  IF IsArray(response) THEN JoinItems(response.v)
  ELSE IF TypeOf(response) = "string" THEN response.v
  ELSE IF Truthy(response) /\ Truthy(Prop(response, "choices"))
          /\ Len(Prop(response, "choices").v) > 0
  THEN LET content == Prop(Prop(Prop(response, "choices").v[1], "message"), "content")
       IN IF Truthy(content) THEN content.v ELSE <<>>
  ELSE <<>>

\* lines 378-387: the content of one stream item
ChunkContent(chunk) ==
  IF Truthy(chunk) /\ Truthy(Prop(chunk, "choices"))
     /\ Len(Prop(chunk, "choices").v) > 0
  THEN LET content == Prop(Prop(Prop(chunk, "choices").v[1], "delta"), "content")
       IN IF Truthy(content) THEN content.v ELSE <<>>
  ELSE IF TypeOf(chunk) = "string" THEN chunk.v
  ELSE <<>>

-----------------------------------------------------------------------------
(* One invocation.  modelIndex, attempt, lastError, hasContent, modelList   *)
(* and the handle are the locals of the source; pc is where the invocation *)
(* is suspended; result is how it ended.  The other fields record what the *)
(* invocation did and what the upstream did to it, for the properties:     *)
(*   attempts     the iterations of the inner loop, each with the line 255 *)
(*                 log's "attempt+1 / maxRetries+1"                         *)
(*   requests     the upstream calls issued                                *)
(*   sleeps       the backoff delays slept                                 *)
(*   received     the stream items, each with the iteration it came in     *)
(*   onChunk, onError   the calls of the two callbacks                     *)
(*   lastEvent    how the upstream ended the current iteration             *)
(*   allRejected  every iteration so far ended by the upstream call        *)
(*                 rejecting; rejectedWith is then the last rejection      *)
(*   handleAt     the number of resets when the handle was obtained        *)
(*   startedAt    the number of setRetryConfig calls when it started       *)

CallIds == {1, 2}

NoResult == [kind |-> "none"]

NewCall ==
  [ pc |-> "idle", fn |-> "none", modelList |-> <<>>, expectedFields |-> <<>>,
    modelIndex |-> 0, attempt |-> 0, lastError |-> NoError, handle |-> NoClient,
    hasContent |-> FALSE, delayMs |-> 0, result |-> NoResult,
    attempts |-> <<>>, requests |-> 0, sleeps |-> <<>>, received |-> <<>>,
    onChunk |-> <<>>, onError |-> <<>>, lastEvent |-> "none",
    allRejected |-> TRUE, rejectedWith |-> NoError, handleAt |-> 0,
    startedAt |-> 0 ]

\* Exhausted raising in both functions (onError never called)
ExhaustedRaises(m) ==
  [m EXCEPT !.call.pc = "done",
     !.call.result =
       [kind |-> "throw",
        error |-> ExhaustedError("stream-exhausted", "generate-failed",
                                 m.call.modelList, m.call.lastError)]]

\* lines 340-345 (raise) and 426-433 (report through onError, then return)
Exhausted(m) ==
  IF m.call.fn = "analyze"
  THEN [m EXCEPT !.call.pc = "done",
          !.call.result =
            [kind |-> "throw",
             error |-> ExhaustedError("analyze-exhausted", "analyze-failed",
                                      m.call.modelList, m.call.lastError)]]
  ELSE [m EXCEPT !.call.pc = "done",
          !.call.onError =
            Append(@, ExhaustedError("stream-exhausted", "generate-failed",
                                     m.call.modelList, m.call.lastError)),
          !.call.result = [kind |-> "return", data |-> JUndefined]]

RECURSIVE LoopHead(_)
RECURSIVE Catch(_, _)

\* lines 253-270 / 363-374: the body of one iteration up to the upstream call
TryBody(m) ==
  LET g == GetClient([client |-> m.client, constructed |-> m.constructed])
      entry == [modelIndex |-> m.call.modelIndex, attempt |-> m.call.attempt,
                model |-> m.call.modelList[m.call.modelIndex + 1],
                of |-> retryConfig.maxRetries + 1]
      logged == [m EXCEPT !.call.attempts = Append(@, entry),
                          !.call.lastEvent = "none"]
  IN IF g.threw
     THEN Catch([logged EXCEPT !.call.allRejected = FALSE,
                               !.call.rejectedWith = NoError], g.error)
     ELSE [call |-> [logged.call EXCEPT !.pc = "create", !.handle = g.handle,
                       !.handleAt = resets, !.requests = @ + 1],
           client |-> g.client, constructed |-> g.constructed]

\* Catch withdrawing what the failed attempt had delivered (onChunk cleared)
CatchWithdraws(m, error) ==
  LET caught == [m EXCEPT !.call.lastError = error, !.call.onChunk = <<>>]
  IN IF m.call.attempt < retryConfig.maxRetries
     THEN [caught EXCEPT !.call.pc = "delay",
             !.call.delayMs = CalculateDelay(m.call.attempt),
             !.call.sleeps = Append(@, CalculateDelay(m.call.attempt))]
     ELSE LoopHead([caught EXCEPT !.call.attempt = @ + 1])

\* LoopHead reading maxRetries from the policy the manager was built with
LoopHeadSnapshot(m) ==
  IF m.call.modelIndex >= Len(m.call.modelList)
  THEN Exhausted(m)
  ELSE IF m.call.attempt > DefaultRetryConfig.maxRetries
  THEN LoopHead([m EXCEPT !.call.modelIndex = @ + 1, !.call.attempt = 0])
  ELSE TryBody(m)

\* LoopHead granting one iteration too many (attempt <= maxRetries + 1)
LoopHeadExtraAttempt(m) ==
  IF m.call.modelIndex >= Len(m.call.modelList)
  THEN Exhausted(m)
  ELSE IF m.call.attempt > retryConfig.maxRetries + 1
  THEN LoopHead([m EXCEPT !.call.modelIndex = @ + 1, !.call.attempt = 0])
  ELSE TryBody(m)

\* LoopHead leaving a model one iteration early (attempt < maxRetries)
LoopHeadOffByOne(m) ==
  IF m.call.modelIndex >= Len(m.call.modelList)
  THEN Exhausted(m)
  ELSE IF m.call.attempt >= retryConfig.maxRetries
  THEN LoopHead([m EXCEPT !.call.modelIndex = @ + 1, !.call.attempt = 0])
  ELSE TryBody(m)

\* the loop conditions of lines 249 and 252 (359 and 362), evaluated at
\* (modelIndex, attempt)
LoopHead(m) ==
  IF m.call.modelIndex >= Len(m.call.modelList)
  THEN Exhausted(m)
  ELSE IF m.call.attempt > retryConfig.maxRetries
  THEN LoopHead([m EXCEPT !.call.modelIndex = @ + 1, !.call.attempt = 0])
  ELSE TryBody(m)

\* Catch giving up the model at its first failure (break instead of retry)
CatchSkipsRetries(m, error) ==
  LoopHead([m EXCEPT !.call.lastError = error,
                     !.call.attempt = retryConfig.maxRetries + 1])

\* Catch sleeping after the last attempt on a model as well
CatchAlwaysSleeps(m, error) ==
  [m EXCEPT !.call.lastError = error, !.call.pc = "delay",
            !.call.delayMs = CalculateDelay(m.call.attempt),
            !.call.sleeps = Append(@, CalculateDelay(m.call.attempt))]

\* the catch block of lines 318-330 (404-416), then attempt++
Catch(m, error) ==
  LET caught == [m EXCEPT !.call.lastError = error]
  IN IF m.call.attempt < retryConfig.maxRetries
     THEN [caught EXCEPT !.call.pc = "delay",
             !.call.delayMs = CalculateDelay(m.call.attempt),
             !.call.sleeps = Append(@, CalculateDelay(m.call.attempt))]
     ELSE LoopHead([caught EXCEPT !.call.attempt = @ + 1])

\* HandleResponse letting a failed validation out to the caller
HandleResponseValidationRaises(m, response) ==
  LET content == ExtractContent(response)
      validation == ValidateJsonResponse(content, m.call.expectedFields)
  IN IF content = <<>> \/ Trim(content) = <<>>
     THEN Catch(m, PlainError([tag |-> "empty-content"]))
     ELSE IF validation.threw \/ ~validation.isValid
     THEN [m EXCEPT !.call.pc = "done",
             !.call.result =
               [kind |-> "throw", error |-> PlainError([tag |-> "validation-failed"])]]
     ELSE [m EXCEPT !.call.pc = "done",
             !.call.result = [kind |-> "return", data |-> validation.data]]

\* lines 272-316 once the upstream call has resolved
HandleResponse(m, response) ==
  LET content == ExtractContent(response)
  IN IF content = <<>> \/ Trim(content) = <<>>
     THEN Catch(m, PlainError([tag |-> "empty-content"]))
     ELSE LET validation == ValidateJsonResponse(content, m.call.expectedFields)
          IN IF validation.threw
             THEN Catch(m, validation.error)
             ELSE IF ~validation.isValid
             THEN Catch(m, PlainError([tag |-> "validation-failed",
                                       errors |-> validation.errors]))
             ELSE [m EXCEPT !.call.pc = "done",
                     !.call.result = [kind |-> "return", data |-> validation.data]]

\* HandleChunk handing the newest content over ahead of the earlier ones
HandleChunkNewestFirst(call, chunk) ==
  LET content == ChunkContent(chunk)
      seen == [call EXCEPT !.received =
                 Append(@, [n |-> Len(call.attempts), item |-> chunk])]
  IN IF content = <<>> THEN seen
     ELSE [seen EXCEPT !.hasContent = TRUE, !.onChunk = <<content>> \o @]

\* lines 378-392: one item of the stream
HandleChunk(call, chunk) ==
  LET content == ChunkContent(chunk)
      seen == [call EXCEPT !.received =
                 Append(@, [n |-> Len(call.attempts), item |-> chunk])]
  IN IF content # <<>>
     THEN [seen EXCEPT !.hasContent = TRUE, !.onChunk = Append(@, content)]
     ELSE seen

\* HandleStreamEnd taking a stream without content for a success
HandleStreamEndAcceptsEmpty(m) ==
  [m EXCEPT !.call.pc = "done",
     !.call.result = [kind |-> "return", data |-> JUndefined]]

\* lines 395-402: the stream is over
HandleStreamEnd(m) ==
  IF ~m.call.hasContent
  THEN Catch(m, PlainError([tag |-> "no-stream-content"]))
  ELSE [m EXCEPT !.call.pc = "done",
          !.call.result = [kind |-> "return", data |-> JUndefined]]

-----------------------------------------------------------------------------
(* Actions *)

Machine(c) == [call |-> calls[c], client |-> client, constructed |-> constructed]

\* the machine of c once the upstream has ended the current iteration by
\* event (error: what it rejected with)
Observed(c, event, error) ==
  LET still == calls[c].allRejected /\ event = "rejected"
  IN [Machine(c) EXCEPT !.call.lastEvent = event,
                        !.call.allRejected = still,
                        !.call.rejectedWith = IF still THEN error ELSE NoError]

\* Spec 4.4's test of an HTML page: the trimmed, case-folded text starts
\* with a doctype or an html tag
IsHtmlPage(text) ==
  LET t == Trim(text)
  IN t # <<>> /\ ToLowerCase(Head(t)) \in {"<!doctype", "<html"}

Commit(c, m) ==
  /\ calls' = [calls EXCEPT ![c] = m.call]
  /\ client' = m.client
  /\ constructed' = m.constructed
  /\ UNCHANGED <<env, retryConfig, resets, reconfigs, envChanges, probe>>

Begin(c, fn, expectedFields) ==
  [Machine(c) EXCEPT !.call =
     [NewCall EXCEPT !.fn = fn, !.expectedFields = expectedFields,
        !.modelList = GetModelList, !.startedAt = reconfigs]]

\* analyzeWithRetry(prompt, expectedFields), up to its first await (lines 242-270)
AnalyzeWithRetry(c, expectedFields) ==
  /\ calls[c].pc = "idle"
  /\ Commit(c, LoopHead(Begin(c, "analyze", expectedFields)))

\* generateStreamWithRetry(prompt, onChunk, onError), up to its first await
\* (lines 351-374)
GenerateStreamWithRetry(c) ==
  /\ calls[c].pc = "idle"
  /\ Commit(c, LoopHead(Begin(c, "stream", <<>>)))

\* the upstream call rejects (line 270 / 369 throws)
CreateRejects(c, error) ==
  /\ calls[c].pc = "create"
  /\ Commit(c, Catch(Observed(c, "rejected", error), error))

\* the upstream call of analyzeWithRetry resolves (lines 270-316)
CreateResolves(c, response) ==
  /\ calls[c].pc = "create"
  /\ calls[c].fn = "analyze"
  /\ Commit(c, HandleResponse(
                 Observed(c, IF IsHtmlPage(ExtractContent(response))
                             THEN "html" ELSE "response", NoError),
                 response))

\* the upstream call of generateStreamWithRetry resolves with a stream
\* (lines 369-377)
StreamOpens(c) ==
  /\ calls[c].pc = "create"
  /\ calls[c].fn = "stream"
  /\ Commit(c, [Observed(c, "stream-opened", NoError) EXCEPT
                   !.call.pc = "stream", !.call.hasContent = FALSE])

\* the stream yields an item (lines 377-393)
StreamYields(c, chunk) ==
  /\ calls[c].pc = "stream"
  /\ Len(calls[c].received) < MaxChunks
  /\ Commit(c, [Machine(c) EXCEPT !.call = HandleChunk(calls[c], chunk)])

\* the stream ends (lines 393-402)
StreamCompletes(c) ==
  /\ calls[c].pc = "stream"
  /\ Commit(c, HandleStreamEnd(Observed(c, "stream-ended", NoError)))

\* the iteration of the stream throws (line 377)
StreamFails(c, error) ==
  /\ calls[c].pc = "stream"
  /\ Commit(c, Catch(Observed(c, "stream-failed", error), error))

\* the backoff timer fires (line 328 / 414), then attempt++
DelayElapses(c) ==
  /\ calls[c].pc = "delay"
  /\ Commit(c, LoopHead([Machine(c) EXCEPT !.call.attempt = @ + 1]))

\* setRetryConfig(config) (lines 439-441)
SetRetryConfig(config) ==
  /\ reconfigs < MaxReconfig
  /\ retryConfig' = MergeConfig(retryConfig, config)
  /\ reconfigs' = reconfigs + 1
  /\ UNCHANGED <<env, client, calls, constructed, resets, envChanges, probe>>

\* resetClient() (lines 446-448)
ResetClient ==
  /\ resets + envChanges < MaxClientOps
  /\ client' = NoClient
  /\ resets' = resets + 1
  /\ UNCHANGED <<env, retryConfig, calls, constructed, reconfigs, envChanges, probe>>

\* the deployment's configuration is edited
SetEnv(e) ==
  /\ resets + envChanges < MaxClientOps
  /\ e # env
  /\ env' = e
  /\ envChanges' = envChanges + 1
  /\ UNCHANGED <<client, retryConfig, calls, constructed, resets, reconfigs, probe>>

-----------------------------------------------------------------------------
(* Specifications *)

\* no private function is called directly
NoProbe == [fn |-> "none"]

\* the state after construction, but for the configuration
Constructed ==
  /\ client = NoClient
  /\ retryConfig = DefaultRetryConfig
  /\ calls = [c \in CallIds |-> NewCall]
  /\ constructed = 0
  /\ resets = 0
  /\ reconfigs = 0
  /\ envChanges = 0

Init ==
  /\ env \in EnvValues
  /\ Constructed
  /\ probe = NoProbe

\* One invocation against every upstream behaviour and every retry policy.
Next ==
  \/ \E f \in ExpectedFieldsValues : AnalyzeWithRetry(1, f)
  \/ GenerateStreamWithRetry(1)
  \/ \E e \in UpstreamErrors : CreateRejects(1, e)
  \/ \E r \in AnalyzeResponses : CreateResolves(1, r)
  \/ StreamOpens(1)
  \/ \E k \in StreamChunks : StreamYields(1, k)
  \/ StreamCompletes(1)
  \/ \E e \in UpstreamErrors : StreamFails(1, e)
  \/ DelayElapses(1)
  \/ \E o \in RetryOverrides : SetRetryConfig(o)

Spec == Init /\ [][Next]_vars

\* Two concurrent invocations sharing the manager, with resetClient and
\* edits of the credentials, against a reduced upstream: it rejects, or
\* answers with a valid document or a stream of "a" items.
ValidAnswer == Completion(JsonText[DocRules])

InitConc ==
  /\ Init
  /\ env.AI_MODEL_NAME = <<>>

NextConc ==
  \/ \E c \in CallIds : AnalyzeWithRetry(c, <<"rules">>)
  \/ \E c \in CallIds : GenerateStreamWithRetry(c)
  \/ \E c \in CallIds : CreateRejects(c, PlainError([tag |-> "ETIMEDOUT"]))
  \/ \E c \in CallIds : CreateResolves(c, ValidAnswer)
  \/ \E c \in CallIds : StreamOpens(c)
  \/ \E c \in CallIds : StreamYields(c, DeltaChunk(<<"a">>))
  \/ \E c \in CallIds : StreamCompletes(c)
  \/ \E c \in CallIds : DelayElapses(c)
  \/ ResetClient
  \/ \E e \in EnvValues : e.AI_MODEL_NAME = env.AI_MODEL_NAME /\ SetEnv(e)

SpecConc == InitConc /\ [][NextConc]_vars

-----------------------------------------------------------------------------
(* Vocabulary of the properties *)

Started(c) == calls[c].pc # "idle"

Finished(c) == calls[c].pc = "done"

\* no setRetryConfig since the invocation started
PolicyStable(c) == calls[c].startedAt = reconfigs

\* the iterations the invocation ran on the model at index i
IterationsOn(c, i) ==
  Cardinality({k \in 1..Len(calls[c].attempts) : calls[c].attempts[k].modelIndex = i})

\* the text name occurs in text
Occurs(name, text) ==
  \E k \in 1..(Len(text) - Len(name) + 1) : SubSeq(text, k, k + Len(name) - 1) = name

Raised(c) == calls[c].result.kind = "throw"

Returned(c) == calls[c].result.kind = "return"

\* e is the aggregate error of an exhausted model list
IsExhaustion(e, tag, modelList) ==
  /\ e.cls = "BusinessError"
  /\ e.retryable
  /\ e.message.tag = tag
  /\ \A i \in 1..Len(modelList) : Occurs(modelList[i], e.message.models)

-----------------------------------------------------------------------------
(* C1: against an upstream that rejects every call, with M models and      *)
(* maxRetries = R, analyzeWithRetry runs exactly R+1 iterations on each    *)
(* model, M*(R+1) in all, each issuing one upstream call, and then raises  *)
(* the exhaustion error, which names every model and carries the message   *)
(* of the last rejection.                                                  *)
C1_ExhaustionAfterAllAttempts ==
  \A c \in CallIds :
    LET call == calls[c]
        M == Len(call.modelList)
        R == retryConfig.maxRetries
    IN (call.fn = "analyze" /\ Finished(c) /\ call.allRejected /\ PolicyStable(c))
       => /\ Len(call.attempts) = M * (R + 1)
          /\ call.requests = M * (R + 1)
          /\ \A i \in 0..(M - 1) : IterationsOn(c, i) = R + 1
          /\ Raised(c)
          /\ IsExhaustion(call.result.error, "analyze-exhausted", call.modelList)
          /\ call.result.error.message.retries = R
          /\ (M > 0 => call.result.error.message.last = call.rejectedWith.message)

\* the case of section 8: 2 models, maxRetries = 2, 6 rejected calls
C1_Witness ==
  \E c \in CallIds :
    /\ calls[c].fn = "analyze" /\ Finished(c) /\ calls[c].allRejected
    /\ PolicyStable(c)
    /\ Len(calls[c].modelList) = 2 /\ retryConfig.maxRetries = 2
    /\ calls[c].requests = 6
    /\ calls[c].rejectedWith = PlainError([tag |-> "HTTP 500"])

(* C2: a response whose trimmed, case-folded text starts with a doctype or *)
(* an html tag ends analyzeWithRetry at once: the invocation is over, it   *)
(* raised a terminal (non-retryable) configuration failure, and no further *)
(* iteration or model follows.                                             *)
C2_HtmlPageAborts ==
  \A c \in CallIds :
    (calls[c].fn = "analyze" /\ calls[c].lastEvent = "html")
    => /\ Finished(c)
       /\ Raised(c)
       /\ calls[c].result.error.cls = "BusinessError"
       /\ ~calls[c].result.error.retryable

(* C3: when the API URL or the API key is absent, getClient fails with the *)
(* non-retryable configuration error and analyzeWithRetry stops there: one *)
(* iteration started, no backoff sleep, no further model, and the caller   *)
(* receives the configuration error itself.                                *)
C3_ConfigErrorShortCircuits ==
  \A c \in CallIds :
    ( /\ calls[c].fn = "analyze" /\ Started(c) /\ calls[c].modelList # <<>>
      /\ ~client.made
      /\ (env.THIRD_PARTY_API_URL = <<>> \/ env.THIRD_PARTY_API_KEY = <<>>) )
    => /\ Finished(c)
       /\ Len(calls[c].attempts) = 1
       /\ calls[c].sleeps = <<>>
       /\ Raised(c)
       /\ calls[c].result.error = ConfigError

(* C4: in every invocation of either function the models are tried in the  *)
(* configured order: the first iteration is (model 0, attempt 0); each     *)
(* later one is the next attempt on the same model or attempt 0 on the     *)
(* next model, and the latter only after maxRetries+1 iterations on the    *)
(* model before (exactly maxRetries+1 when the policy did not change).     *)
C4_ModelsInOrder ==
  \A c \in CallIds :
    LET log == calls[c].attempts
        list == calls[c].modelList
    IN \A k \in 1..Len(log) :
         /\ log[k].modelIndex \in 0..(Len(list) - 1)
         /\ log[k].model = list[log[k].modelIndex + 1]
         /\ (k = 1 => log[k].modelIndex = 0 /\ log[k].attempt = 0)
         /\ (k > 1 =>
               \/ /\ log[k].modelIndex = log[k-1].modelIndex
                  /\ log[k].attempt = log[k-1].attempt + 1
               \/ /\ log[k].modelIndex = log[k-1].modelIndex + 1
                  /\ log[k].attempt = 0
                  /\ log[k-1].attempt + 1 >= log[k].of
                  /\ (PolicyStable(c) => log[k-1].attempt = retryConfig.maxRetries))

\* a streaming invocation that reached its second attempt on the second model
C4_Witness ==
  \E c \in CallIds :
    /\ calls[c].fn = "stream"
    /\ \E k \in 1..Len(calls[c].attempts) :
         calls[c].attempts[k].modelIndex = 1 /\ calls[c].attempts[k].attempt = 1


-----------------------------------------------------------------------------
(* Fragments: a fragment is a piece of streamed textual content, that is *)
(* a stream item carrying a non-empty text, either as the item itself or  *)
(* as choices[0].delta.content. Items without text are not fragments.     *)

TextOf(item) ==
  IF item.t = "str" THEN item.v
  ELSE IF item.t = "obj" /\ "choices" \in DOMAIN item.v
          /\ Len(item.v.choices.v) > 0
          /\ Prop(Prop(item.v.choices.v[1], "delta"), "content").t = "str"
  THEN Prop(Prop(item.v.choices.v[1], "delta"), "content").v
  ELSE <<>>

RECURSIVE FragmentsOf(_)
FragmentsOf(entries) ==
  IF entries = <<>> THEN <<>>
  ELSE (IF TextOf(Head(entries).item) = <<>> THEN <<>>
        ELSE <<TextOf(Head(entries).item)>>) \o FragmentsOf(Tail(entries))

\* the fragments that arrived during the iteration numbered n
FragmentsDuring(c, n) ==
  FragmentsOf(SelectSeq(calls[c].received, LAMBDA e : e.n = n))

\* the stream of the current iteration has completed, having yielded fragments
StreamCompleted(c) ==
  /\ calls[c].fn = "stream"
  /\ calls[c].lastEvent = "stream-ended"
  /\ FragmentsDuring(c, Len(calls[c].attempts)) # <<>>

(* C5: onChunk is called once per fragment, in arrival order; when the     *)
(* stream has yielded fragments f1..fn and completed, the invocation has   *)
(* returned and onError has not been called.                               *)
C5_OncePerFragmentInOrder ==
  \A c \in CallIds :
    /\ calls[c].fn = "stream" => calls[c].onChunk = FragmentsOf(calls[c].received)
    /\ StreamCompleted(c)
         => /\ Finished(c) /\ Returned(c)
            /\ calls[c].onError = <<>>

\* a completed stream of two different fragments, delivered in their order
C5_Witness ==
  \E c \in CallIds :
    /\ StreamCompleted(c) /\ Finished(c)
    /\ FragmentsDuring(c, Len(calls[c].attempts)) = << <<"b">>, <<"a">> >>
    /\ calls[c].onChunk = << <<"b">>, <<"a">> >>

(* C6: generateStreamWithRetry never raises and calls onError at most      *)
(* once; it calls it exactly when it finishes without a stream that        *)
(* delivered content, with the aggregate exhaustion error, and only after  *)
(* the loop has left every model with its attempts used up.                *)
C6_OnErrorOnceOnExhaustion ==
  \A c \in CallIds :
    LET call == calls[c]
        M == Len(call.modelList)
        delivered == call.lastEvent = "stream-ended" /\ call.hasContent
    IN call.fn = "stream"
       => /\ Len(call.onError) <= 1
          /\ ~Raised(c)
          /\ (Finished(c) => Returned(c) /\ (call.onError = <<>> <=> delivered))
          /\ (call.onError # <<>>
                => /\ Finished(c)
                   /\ IsExhaustion(call.onError[1], "stream-exhausted", call.modelList)
                   /\ call.modelIndex = M
                   /\ \A i \in 0..(M - 1) : IterationsOn(c, i) >= 1
                   /\ (M > 0 => call.attempts[Len(call.attempts)].attempt
                                  >= call.onError[1].message.retries)
                   /\ (PolicyStable(c) =>
                         \A i \in 0..(M - 1) :
                           IterationsOn(c, i) = retryConfig.maxRetries + 1))

\* two models and the default policy: onError after six failed iterations
C6_Witness ==
  \E c \in CallIds :
    /\ calls[c].fn = "stream" /\ Finished(c)
    /\ Len(calls[c].onError) = 1
    /\ Len(calls[c].attempts) = 6
    /\ calls[c].lastEvent = "stream-ended"

(* C7: the resolved model list is never empty: an invocation whose model   *)
(* configuration holds no name fails fast with a terminal (non-retryable)  *)
(* configuration error and issues no upstream call.                        *)
C7_EmptyModelListRejected ==
  \A c \in CallIds :
    (Started(c) /\ calls[c].modelList = <<>>)
    => /\ Finished(c)
       /\ calls[c].requests = 0
       /\ (calls[c].fn = "analyze"
             => Raised(c) /\ ~calls[c].result.error.retryable)
       /\ (calls[c].fn = "stream"
             => Len(calls[c].onError) = 1 /\ ~calls[c].onError[1].retryable)

-----------------------------------------------------------------------------
(* base * mult^a as the specification writes it *)
Power(b, e) == IF e = 0 THEN 1 ELSE b ^ e

DelayFormula(a) ==
  Min(retryConfig.baseDelay * Power(retryConfig.backoffMultiplier, a),
      retryConfig.maxDelay)

\* calculateDelay follows the formula, and so does every sleep in progress
FollowsFormula ==
  /\ \A a \in 0..MaxAttempt : CalculateDelay(a) = DelayFormula(a)
  /\ \A c \in CallIds :
       (calls[c].pc = "delay" /\ PolicyStable(c))
       => calls[c].delayMs = DelayFormula(calls[c].attempt)

NonDecreasing ==
  \A a \in 0..MaxAttempt : CalculateDelay(a) <= CalculateDelay(a + 1)

(* C8: under the current policy calculateDelay(a) is                       *)
(* min(baseDelay * backoffMultiplier^a, maxDelay) for every a >= 0, and it *)
(* is non-decreasing in a.                                                 *)
C8_DelayMonotone == FollowsFormula /\ NonDecreasing

(* C8, amended: calculateDelay(a) is the formula for every a >= 0, and it  *)
(* is non-decreasing in a whenever baseDelay >= 0 and                      *)
(* backoffMultiplier >= 1.                                                 *)
C8_DelayMonotoneForGrowingPolicy ==
  /\ FollowsFormula
  /\ (retryConfig.baseDelay >= 0 /\ retryConfig.backoffMultiplier >= 1
        => NonDecreasing)

\* a sleep cut to maxDelay under a reconfigured policy
C8_Witness ==
  /\ retryConfig.baseDelay = 3000
  /\ \E c \in CallIds :
       /\ calls[c].pc = "delay" /\ PolicyStable(c)
       /\ calls[c].attempt = 1
       /\ calls[c].delayMs = 5000

-----------------------------------------------------------------------------
(* One invocation against a reduced upstream (one rejection, a valid and  *)
(* an unparseable answer, items with and without content), in which every *)
(* await completes: the upstream call settles, the stream ends and the    *)
(* backoff timer fires.                                                   *)
Timeout == PlainError([tag |-> "ETIMEDOUT"])

LiveResponses == { Completion(JsonText[DocRules]), JStr(NotJson) }

LiveChunks == { DeltaChunk(<<"a">>), DeltaChunk(<<>>) }

Settles ==
  \/ CreateRejects(1, Timeout)
  \/ \E r \in LiveResponses : CreateResolves(1, r)
  \/ StreamOpens(1)
  \/ StreamCompletes(1)
  \/ StreamFails(1, Timeout)
  \/ DelayElapses(1)

NextLive ==
  \/ AnalyzeWithRetry(1, <<"rules">>)
  \/ GenerateStreamWithRetry(1)
  \/ Settles
  \/ \E k \in LiveChunks : StreamYields(1, k)
  \/ \E o \in RetryOverrides : SetRetryConfig(o)

SpecLive == Init /\ [][NextLive]_vars /\ WF_vars(Settles)

AttemptsBounded(c) ==
  /\ calls[c].requests <= Len(calls[c].attempts)
  /\ \A k \in 1..Len(calls[c].attempts) :
       /\ calls[c].attempts[k].attempt < calls[c].attempts[k].of
       /\ calls[c].attempts[k].modelIndex < Len(calls[c].modelList)
  /\ (PolicyStable(c)
        => Len(calls[c].attempts)
             <= Len(calls[c].modelList) * (retryConfig.maxRetries + 1))

(* C9: an invocation of either function issues at most                     *)
(* |modelList| * (maxRetries + 1) upstream calls and, every await          *)
(* completing, eventually finishes.                                        *)
C9_BoundedAndFinishes ==
  /\ [](\A c \in CallIds : AttemptsBounded(c))
  /\ \A c \in CallIds : Started(c) ~> Finished(c)

\* a finished streaming invocation that used the whole budget
C9_Witness ==
  \E c \in CallIds :
    /\ calls[c].fn = "stream" /\ Finished(c) /\ PolicyStable(c)
    /\ Len(calls[c].modelList) = 2
    /\ calls[c].requests = 2 * (retryConfig.maxRetries + 1)
    /\ retryConfig.maxRetries = 3

-----------------------------------------------------------------------------
\* some invocation called getClient in this step
GetClientCalled(c) == Len(calls'[c].attempts) > Len(calls[c].attempts)

CredentialsPresent ==
  env.THIRD_PARTY_API_URL # <<>> /\ env.THIRD_PARTY_API_KEY # <<>>

SingletonState ==
  /\ constructed <= 1 + resets
  /\ (client.made => client.id = constructed)
  /\ \A c1, c2 \in CallIds :
       ( /\ calls[c1].handle.made /\ calls[c2].handle.made
         /\ calls[c1].handleAt = calls[c2].handleAt )
       => calls[c1].handle = calls[c2].handle

SingletonStep ==
  /\ (constructed' # constructed
        => /\ ~client.made
           /\ constructed' = constructed + 1
           /\ client' = NewOpenAI(env.THIRD_PARTY_API_URL,
                                  env.THIRD_PARTY_API_KEY, constructed + 1))
  /\ (client.made /\ resets' = resets => client' = client)
  /\ \A c \in CallIds :
       GetClientCalled(c)
       => /\ (client.made => calls'[c].handle = client)
          /\ (~client.made /\ CredentialsPresent
                => constructed' = constructed + 1 /\ calls'[c].handle = client')

(* C10: the handle is a lazily built shared singleton: under every         *)
(* interleaving of two invocations a handle is built only when none is     *)
(* cached, so at most 1 + (number of resetClient calls) are built; calls   *)
(* of getClient with no reset between them return the same handle; and the *)
(* first getClient after resetClient reads the configuration again and     *)
(* builds a new handle from it.                                            *)
C10_SharedSingleton == [](SingletonState) /\ [][SingletonStep]_vars

\* after an edit of the URL and a reset, one invocation still holds the
\* first handle while the other got the second, built from the new URL
C10_Witness ==
  /\ resets = 1 /\ constructed = 2
  /\ client.made /\ client.baseURL = <<"v">>
  /\ calls[1].handle.made /\ calls[1].handle.id = 1
  /\ calls[1].handle.baseURL = <<"u">>
  /\ calls[2].handle = client

-----------------------------------------------------------------------------
(* The private functions called directly, once, on arguments drawn from    *)
(* the sets below: probe holds the arguments and then the outcome.         *)

PureContents ==
  { JsonText[d] : d \in JsonDocs } \cup { NotJson, <<>>, <<" ", "\n">>, HtmlPage }

PureFields ==
  { <<>>, <<"rules">>, <<"tagStrategy">>, <<"rules", "tagStrategy">>,
    <<"tagStrategy", "rules">>,
    <<"titleFormulas", "contentStructure", "coverStyleAnalysis">>,
    <<"coverStyleAnalysis", "tagStrategy", "contentStructure", "rules",
      "titleFormulas">> }

\* a completion of two choices
TwoChoices ==
  JObj([choices |->
    JArr(<< JObj([message |-> JObj([content |-> JStr(<<"first">>)])]),
            JObj([message |-> JObj([content |-> JStr(<<"second">>)])]) >>)])

PureResponses ==
  AnalyzeResponses
  \cup { JArr(<<JStr(<<"x", "y">>), JStr(<<>>), JStr(<<"z">>), JStr(<<"x">>)>>),
         JArr(<<>>), JArr(<<JStr(<<"x">>)>>), JStr(<<>>), JStr(<<" ", "x", " ">>),
         TwoChoices, JUndefined, JNum(0),
         JObj([choices |-> JArr(<<JObj([message |-> JObj([content |-> JNull])])>>)]),
         JObj([choices |-> JArr(<<JObj([delta |-> JObj([content |-> JStr(<<"x">>)])])>>)]) }

PureModelNames ==
  ModelNameValues
  \cup { <<"a">>, <<"b", ",", "a">>, <<"\n", "a", " ">>, <<"a", ",", ",", "a">>,
         <<"a", ",", " ", "b", ",", "c", ",">> }

PureEnv(modelName) ==
  [THIRD_PARTY_API_URL |-> <<"u">>, THIRD_PARTY_API_KEY |-> <<"k">>,
   AI_MODEL_NAME |-> modelName]

Pending == [threw |-> FALSE, pending |-> TRUE]

PureProbes ==
  { [fn |-> "validateJsonResponse", content |-> c, expectedFields |-> f,
     done |-> FALSE, out |-> Pending] : c \in PureContents, f \in PureFields }
  \cup { [fn |-> "extractContent", response |-> r, done |-> FALSE, out |-> Pending] :
           r \in PureResponses }

InitPure ==
  /\ Constructed
  /\ \/ env = PureEnv(<<>>) /\ probe \in PureProbes
     \/ /\ env \in { PureEnv(n) : n \in PureModelNames }
        /\ probe = [fn |-> "getModelList", done |-> FALSE, out |-> Pending]

Answer(out) ==
  /\ ~probe.done
  /\ probe' = [probe EXCEPT !.done = TRUE, !.out = out]
  /\ UNCHANGED <<env, client, retryConfig, calls, constructed, resets,
                 reconfigs, envChanges>>

CallValidateJsonResponse ==
  /\ probe.fn = "validateJsonResponse"
  /\ Answer(ValidateJsonResponse(probe.content, probe.expectedFields))

CallExtractContent ==
  /\ probe.fn = "extractContent"
  /\ Answer(ExtractContent(probe.response))

CallGetModelList ==
  /\ probe.fn = "getModelList"
  /\ Answer(GetModelList)

NextPure ==
  \/ CallValidateJsonResponse
  \/ CallExtractContent
  \/ CallGetModelList

SpecPure == InitPure /\ [][NextPure]_vars

\* the direct call of fn has returned or thrown
Called(fn) == probe.fn = fn /\ probe.done

\* the value the content is the JSON text of
Parsed == SafeJsonParse(probe.content, JNull)

FirstN(xs, n) == [i \in 1..(IF Len(xs) < n THEN Len(xs) ELSE n) |-> xs[i]]

ElementsOrNone(x) == IF x.t = "arr" THEN x.v ELSE <<>>

\* tagStrategy is expected and is an object without commonTags
LacksCommonTags ==
  /\ Called("validateJsonResponse")
  /\ Includes(probe.expectedFields, "tagStrategy")
  /\ Parsed.t = "obj" /\ "tagStrategy" \in DOMAIN Parsed.v
  /\ Parsed.v.tagStrategy.t = "obj"
  /\ "commonTags" \notin DOMAIN Parsed.v.tagStrategy.v

(* C11: when tagStrategy is expected and the parsed tagStrategy object has *)
(* no commonTags, validation records no error for tagStrategy and sets     *)
(* commonTags to the first 10 of coreKeywords followed by longTailKeywords *)
(* of tagCategories (each empty when absent), in their order; with no      *)
(* other violation the result is valid and its data holds that commonTags. *)
C11_CommonTagsSynthesized ==
  LacksCommonTags
  => LET cats == Prop(Parsed.v.tagStrategy, "tagCategories")
         all == ElementsOrNone(Prop(cats, "coreKeywords"))
                  \o ElementsOrNone(Prop(cats, "longTailKeywords"))
     IN /\ ~probe.out.threw
        /\ \A k \in 1..Len(probe.out.errors) :
             probe.out.errors[k][1] \notin {"tagStrategy", "tagStrategy.commonTags"}
        /\ probe.out.data.t = "obj"
        /\ Prop(Prop(probe.out.data, "tagStrategy"), "commonTags") = JArr(FirstN(all, 10))
        /\ \A f \in DOMAIN Parsed.v.tagStrategy.v :
             Prop(Prop(probe.out.data, "tagStrategy"), f) = Parsed.v.tagStrategy.v[f]
        /\ (probe.out.errors = <<>> => probe.out.isValid)

\* twelve keywords cut to the first ten, in a valid result
C11_Witness ==
  /\ LacksCommonTags
  /\ Parsed = DocManyTags
  /\ probe.out.isValid
  /\ Len(probe.out.data.v.tagStrategy.v.commonTags.v) = 10
  /\ probe.out.data.v.tagStrategy.v.commonTags.v[7] = JStr(<<"t7">>)

RECURSIVE ConcatUpTo(_, _)
ConcatUpTo(items, n) ==
  IF n = 0 THEN <<>> ELSE ConcatUpTo(items, n - 1) \o items[n].v

(* C12: the normalisation of a raw response yields, for an array of string *)
(* fragments, their concatenation in the original order; for a string, the *)
(* string unchanged; otherwise, for a structured object with choices, the  *)
(* message content of its first choice.                                    *)
C12_NormalisedByShape ==
  Called("extractContent")
  => LET r == probe.response
     IN /\ (r.t = "arr" => probe.out = ConcatUpTo(r.v, Len(r.v)))
        /\ (r.t = "str" => probe.out = r.v)
        /\ ( ( /\ r.t = "obj" /\ "choices" \in DOMAIN r.v
               /\ r.v.choices.t = "arr" /\ Len(r.v.choices.v) > 0
               /\ Prop(Prop(r.v.choices.v[1], "message"), "content").t = "str" )
             => probe.out = r.v.choices.v[1].v.message.v.content.v )

\* four fragments, one of them empty and one repeated, joined in their order
C12_Witness ==
  /\ Called("extractContent")
  /\ probe.response.t = "arr" /\ Len(probe.response.v) = 4
  /\ probe.out = <<"x", "y", "z", "x">>

RECURSIVE Flatten(_)
Flatten(xs) == IF xs = <<>> THEN <<>> ELSE Head(xs) \o Flatten(Tail(xs))

Solid(text) == SelectSeq(text, LAMBDA t : t \notin WhiteSpace \cup {","})

Commas(text) == Len(SelectSeq(text, LAMBDA t : t = ","))

(* C13: the model list is the configured value split on commas, each entry *)
(* trimmed, empty entries dropped, order kept; " gpt-a , , gpt-b " gives   *)
(* exactly ["gpt-a", "gpt-b"].                                             *)
C13_ModelListParsed ==
  (Called("getModelList") /\ env.AI_MODEL_NAME # <<>>)
  => LET value == env.AI_MODEL_NAME
         list == probe.out
     IN /\ \A k \in 1..Len(list) :
             /\ list[k] # <<>>
             /\ Head(list[k]) \notin WhiteSpace
             /\ list[k][Len(list[k])] \notin WhiteSpace
             /\ \A n \in 1..Len(list[k]) : list[k][n] # ","
        /\ Len(list) <= Commas(value) + 1
        /\ Solid(Flatten(list)) = Solid(value)
        /\ (value = <<" ", "a", " ", ",", " ", ",", " ", "b", " ">>
              => list = << <<"a">>, <<"b">> >>)
        /\ (value = <<"a", ",", " ", "b", ",", "c", ",">>
              => list = << <<"a">>, <<"b">>, <<"c">> >>)

\* the configured " a , , b " resolved to [a, b]
C13_Witness ==
  /\ Called("getModelList")
  /\ env.AI_MODEL_NAME = <<" ", "a", " ", ",", " ", ",", " ", "b", " ">>
  /\ probe.out = << <<"a">>, <<"b">> >>

-----------------------------------------------------------------------------
\* the content is the JSON text of some value
ParsesAsJson == \E d \in JsonDocs : JsonText[d] = probe.content

\* field is absent from the parsed value or falsy in it
AbsentOrFalsy(field) ==
  ~(Parsed.t = "obj" /\ field \in DOMAIN Parsed.v /\ Truthy(Parsed.v[field]))

\* one missing-field entry per expected field that is absent or falsy
ExpectedMissing ==
  LET lacking == SelectSeq(probe.expectedFields, AbsentOrFalsy)
  IN [k \in 1..Len(lacking) |-> <<lacking[k], "missing">>]

(* C16: for text that parses as JSON, validateJsonResponse returns an      *)
(* error list that starts with one missing-field entry for each expected   *)
(* field that is absent or falsy, in the order of expectedFields, the      *)
(* errors of the deep validators coming after them, and isValid is true    *)
(* exactly when the list is empty.                                         *)
C16_AllFieldsChecked ==
  (Called("validateJsonResponse") /\ ParsesAsJson)
  => /\ ~probe.out.threw
     /\ Len(probe.out.errors) >= Len(ExpectedMissing)
     /\ SubSeq(probe.out.errors, 1, Len(ExpectedMissing)) = ExpectedMissing
     /\ \A k \in (Len(ExpectedMissing) + 1)..Len(probe.out.errors) :
          probe.out.errors[k][2] # "missing"
     /\ (probe.out.isValid <=> probe.out.errors = <<>>)

\* tagStrategy is expected and is an object whose commonTags is present
\* and is not an array
CommonTagsNotArray ==
  /\ Called("validateJsonResponse")
  /\ Includes(probe.expectedFields, "tagStrategy")
  /\ Parsed.t = "obj" /\ "tagStrategy" \in DOMAIN Parsed.v
  /\ Parsed.v.tagStrategy.t = "obj"
  /\ "commonTags" \in DOMAIN Parsed.v.tagStrategy.v
  /\ Parsed.v.tagStrategy.v.commonTags.t # "arr"

(* C17: when tagStrategy is expected and tagStrategy.commonTags is present *)
(* but is not an array, validation records an error for it, the result is  *)
(* not valid and commonTags is left as it was.                             *)
C17_NonArrayCommonTagsRejected ==
  CommonTagsNotArray
  => /\ ~probe.out.threw
     /\ \E k \in 1..Len(probe.out.errors) :
          probe.out.errors[k][1] = "tagStrategy.commonTags"
     /\ ~probe.out.isValid
     /\ probe.out.data.v.tagStrategy.v.commonTags = Parsed.v.tagStrategy.v.commonTags

-----------------------------------------------------------------------------
(* What follows a failed attempt, from the state in which it fails: a      *)
(* sleep and the same model again while attempts remain, else the next     *)
(* model at attempt 0, else the end of the invocation by exhaustion.       *)

SleepsAndRetries(c) ==
  /\ calls'[c].pc = "delay"
  /\ calls'[c].modelIndex = calls[c].modelIndex
  /\ calls'[c].attempt = calls[c].attempt
  /\ calls'[c].attempts = calls[c].attempts

TakesNextModel(c) ==
  /\ calls'[c].pc = "create"
  /\ calls'[c].modelIndex = calls[c].modelIndex + 1
  /\ calls'[c].attempt = 0
  /\ Len(calls'[c].attempts) = Len(calls[c].attempts) + 1
  /\ calls'[c].sleeps = calls[c].sleeps

EndsExhausted(c) ==
  /\ calls'[c].pc = "done"
  /\ calls'[c].modelIndex = Len(calls[c].modelList)
  /\ calls'[c].attempts = calls[c].attempts
  /\ calls'[c].sleeps = calls[c].sleeps
  /\ IF calls[c].fn = "analyze"
     THEN /\ calls'[c].result.kind = "throw"
          /\ IsExhaustion(calls'[c].result.error, "analyze-exhausted", calls[c].modelList)
          /\ calls'[c].result.error.message.last = MessageOf(calls'[c].lastError)
     ELSE /\ calls'[c].result.kind = "return"
          /\ Len(calls'[c].onError) = Len(calls[c].onError) + 1
          /\ calls'[c].onError[Len(calls'[c].onError)].message.last
               = MessageOf(calls'[c].lastError)

FailureHandled(c) ==
  IF calls[c].attempt < retryConfig.maxRetries
  THEN SleepsAndRetries(c)
  ELSE IF calls[c].modelIndex + 1 < Len(calls[c].modelList)
  THEN TakesNextModel(c)
  ELSE EndsExhausted(c)

\* the upstream call of an analyzeWithRetry settles in this step
AnalyzeSettles(c) ==
  /\ calls[c].fn = "analyze" /\ calls[c].pc = "create"
  /\ calls'[c] # calls[c]

\* the kinds of failure of an attempt of analyzeWithRetry
FailureKinds ==
  {"ETIMEDOUT", "HTTP 500", "empty-content", "validation-failed", "TypeError"}

AttemptSucceeds(c) ==
  /\ calls'[c].pc = "done"
  /\ calls'[c].result.kind = "return"
  /\ calls'[c].lastError = calls[c].lastError

AttemptFails(c) ==
  /\ calls'[c].lastError.cls = "Error"
  /\ calls'[c].lastError.message.tag \in FailureKinds
  /\ FailureHandled(c)

(* C14: in analyzeWithRetry every failure of an attempt (the upstream call *)
(* rejecting, empty or whitespace-only content, unparseable JSON, a failed *)
(* validation) is handled in one way: it becomes lastError and is followed *)
(* by the next attempt, the next model or exhaustion, whichever the        *)
(* attempt counter dictates; the caller is only ever raised the exhaustion *)
(* error, which carries the last failure's message.                        *)
C14_FailuresHandledAlike ==
  /\ [][\A c \in CallIds :
          AnalyzeSettles(c) => AttemptSucceeds(c) \/ AttemptFails(c)]_vars
  /\ [](\A c \in CallIds :
          (calls[c].fn = "analyze" /\ Raised(c))
          => /\ IsExhaustion(calls[c].result.error, "analyze-exhausted",
                             calls[c].modelList)
             /\ calls[c].result.error.message.last = MessageOf(calls[c].lastError))

\* exhaustion after six attempts whose last failure was a failed validation
C14_Witness ==
  \E c \in CallIds :
    /\ calls[c].fn = "analyze" /\ Finished(c) /\ Raised(c)
    /\ calls[c].requests = 6
    /\ calls[c].lastEvent = "response"
    /\ calls[c].result.error.message.last.tag = "validation-failed"

\* the attempts that have failed: all but the one in progress
FailedAttempts(c) ==
  IF calls[c].pc \in {"create", "stream"} \/ (Finished(c) /\ calls[c].onError = <<>>
                                                /\ ~Raised(c))
  THEN SubSeq(calls[c].attempts, 1, Len(calls[c].attempts) - 1)
  ELSE calls[c].attempts

\* delay(a) for every failed attempt a < maxRetries, in the order of the attempts
RECURSIVE SleepsFor(_)
SleepsFor(log) ==
  IF log = <<>> THEN <<>>
  ELSE (IF Head(log).attempt < retryConfig.maxRetries
        THEN <<DelayFormula(Head(log).attempt)>> ELSE <<>>) \o SleepsFor(Tail(log))

\* an attempt of c fails in this step
Fails(c) ==
  /\ calls[c].pc \in {"create", "stream"}
  /\ calls'[c] # calls[c]
  /\ calls'[c].pc # "stream"
  /\ ~(calls'[c].pc = "done" /\ calls'[c].result.kind = "return"
         /\ calls'[c].onError = calls[c].onError)

(* C15: after a failed attempt a the invocation sleeps calculateDelay(a)   *)
(* before the next attempt if and only if a < maxRetries; after the last   *)
(* attempt on a model it goes to the next model or to exhaustion without   *)
(* sleeping; so it has slept delay(0), ..., delay(maxRetries-1), in that   *)
(* order, for every model it has left.                                     *)
C15_SleepOnlyBetweenAttempts ==
  /\ [][\A c \in CallIds :
          Fails(c)
          => IF calls[c].attempt < retryConfig.maxRetries
             THEN /\ calls'[c].pc = "delay"
                  /\ calls'[c].delayMs = DelayFormula(calls[c].attempt)
                  /\ calls'[c].sleeps = Append(calls[c].sleeps, calls'[c].delayMs)
             ELSE /\ calls'[c].pc # "delay"
                  /\ calls'[c].sleeps = calls[c].sleeps]_vars
  /\ [][\A c \in CallIds :
          calls'[c].sleeps # calls[c].sleeps
          => /\ calls'[c].pc = "delay"
             /\ calls'[c].attempt < retryConfig.maxRetries
             /\ calls'[c].delayMs = DelayFormula(calls'[c].attempt)
             /\ \/ calls'[c].sleeps = Append(calls[c].sleeps, calls'[c].delayMs)
                \/ calls[c].pc = "idle" /\ calls'[c].sleeps = <<calls'[c].delayMs>>]_vars
  /\ [](\A c \in CallIds :
          (Started(c) /\ PolicyStable(c))
          => calls[c].sleeps = SleepsFor(FailedAttempts(c)))

\* both models left under the default policy: 1000 and 2000 slept for each
C15_Witness ==
  \E c \in CallIds :
    /\ Finished(c) /\ PolicyStable(c)
    /\ calls[c].fn = "stream"
    /\ Len(calls[c].modelList) = 2
    /\ calls[c].sleeps = <<1000, 2000, 1000, 2000>>

\* the stream of c completes in this step having delivered nothing
CompletesEmpty(c) ==
  /\ calls[c].fn = "stream" /\ calls[c].pc = "stream"
  /\ calls'[c].lastEvent = "stream-ended"
  /\ FragmentsDuring(c, Len(calls[c].attempts)) = <<>>

-----------------------------------------------------------------------------
\* the fragments of the iterations 1..n, iteration after iteration
RECURSIVE FragmentsThrough(_, _)
FragmentsThrough(c, n) ==
  IF n = 0 THEN <<>> ELSE FragmentsThrough(c, n - 1) \o FragmentsDuring(c, n)

IsPrefix(xs, ys) == Len(xs) <= Len(ys) /\ SubSeq(ys, 1, Len(xs)) = xs

(* C19: generateStreamWithRetry never withdraws a delivered fragment: the  *)
(* sequence of onChunk calls only grows, a failed attempt leaves it as it  *)
(* is, and at every point it is the fragments of all the attempts made so  *)
(* far, attempt after attempt, each in arrival order; onError, when it is  *)
(* called, comes after every onChunk call.                                 *)
C19_DeliveredFragmentsKept ==
  /\ [](\A c \in CallIds :
          calls[c].fn = "stream"
          => /\ calls[c].onChunk = FragmentsThrough(c, Len(calls[c].attempts))
             /\ \A k \in 1..Len(calls[c].received) :
                  /\ calls[c].received[k].n \in 1..Len(calls[c].attempts)
                  /\ k > 1 => calls[c].received[k - 1].n <= calls[c].received[k].n)
  /\ [][\A c \in CallIds :
          (calls[c].fn = "stream" /\ calls'[c].fn = "stream")
          => /\ IsPrefix(calls[c].onChunk, calls'[c].onChunk)
             /\ (Fails(c) => calls'[c].onChunk = calls[c].onChunk)
             /\ (calls[c].onError # <<>> => calls'[c].onChunk = calls[c].onChunk)]_vars

\* "b" delivered by the first model before its stream broke, "a" by the
\* second before its own broke, then the one onError call
C19_Witness ==
  \E c \in CallIds :
    /\ calls[c].fn = "stream" /\ Finished(c)
    /\ FragmentsDuring(c, 1) = << <<"b">> >>
    /\ FragmentsDuring(c, 2) = << <<"a">> >>
    /\ calls[c].onChunk = << <<"b">>, <<"a">> >>
    /\ Len(calls[c].onError) = 1
    /\ calls[c].lastEvent = "stream-failed"

-----------------------------------------------------------------------------
\* setRetryConfig runs in this step
Reconfigured == reconfigs' # reconfigs

\* the fields of the policy that the step changes
Changed == {f \in DOMAIN retryConfig : retryConfig'[f] # retryConfig[f]}

\* c is suspended at an await
Suspended(c) == calls[c].pc \in {"create", "stream", "delay"}

\* the iterations c starts in this step
IterationsStarted(c) ==
  SubSeq(calls'[c].attempts, Len(calls[c].attempts) + 1, Len(calls'[c].attempts))

(* C20: the retry policy is read at every iteration, not once per call: a  *)
(* setRetryConfig changes only the fields it names and leaves suspended    *)
(* invocations as they are, and whatever a suspended invocation does next  *)
(* follows the policy of that moment: the attempt bound of the iterations  *)
(* it starts, the choice between sleeping and leaving the model, and the   *)
(* length of the sleep.                                                    *)
C20_PolicyReadEveryIteration ==
  /\ [][Reconfigured
          => /\ \E o \in RetryOverrides :
                  /\ Changed \subseteq DOMAIN o
                  /\ \A f \in DOMAIN o : retryConfig'[f] = o[f]
             /\ calls' = calls]_vars
  /\ [][\A c \in CallIds :
          (Suspended(c) /\ calls'[c] # calls[c])
          => /\ \A k \in 1..Len(IterationsStarted(c)) :
                  /\ IterationsStarted(c)[k].of = retryConfig.maxRetries + 1
                  /\ IterationsStarted(c)[k].attempt <= retryConfig.maxRetries
             /\ \A k \in (Len(calls[c].attempts) + 1)..Len(calls'[c].attempts) :
                  (k > 1 /\ calls'[c].attempts[k].modelIndex
                              > calls'[c].attempts[k - 1].modelIndex)
                  => calls'[c].attempts[k - 1].attempt >= retryConfig.maxRetries
             /\ (Fails(c) /\ calls[c].attempt < retryConfig.maxRetries
                   => calls'[c].pc = "delay")
             /\ (calls'[c].pc = "delay"
                   => /\ calls'[c].attempt < retryConfig.maxRetries
                      /\ calls'[c].delayMs
                           = Min(retryConfig.baseDelay
                                   * Power(retryConfig.backoffMultiplier, calls'[c].attempt),
                                 retryConfig.maxDelay))]_vars

\* an invocation started under maxRetries = 2 and reconfigured to 3 while
\* suspended makes a fourth attempt on its first model
C20_Witness ==
  \E c \in CallIds :
    /\ calls[c].startedAt = 0 /\ reconfigs = 1
    /\ retryConfig.maxRetries = 3
    /\ Len(calls[c].attempts) = 4
    /\ calls[c].attempts[1].of = 3
    /\ calls[c].attempts[4] =
         [modelIndex |-> 0, attempt |-> 3, model |-> calls[c].modelList[1], of |-> 4]
    /\ calls[c].sleeps = <<1000, 2000, 4000>>

=============================================================================
